---- MODULE Spec2Model ----
(***************************************************************************)
(* A model of kmip.pie.factory.ObjectFactory (the converter between the    *)
(* Pie object hierarchy and the core secret object hierarchy) and of the   *)
(* construction contract of kmip.pie.objects.Certificate as exercised by   *)
(* kmip/tests/unit/pie/objects/test_certificate.py.                        *)
(*                                                                         *)
(* Python values are tagged records.  The tag field "py" names the Python  *)
(* type, and every kind of value has its own set of field names, so that   *)
(* two values of different kinds are unequal records (never a comparison   *)
(* of an integer with a string).                                           *)
(***************************************************************************)
EXTENDS Integers, Sequences, FiniteSets, TLC

VARIABLES op, arg, ret, orig

\* Several callers of one factory at once: the attributes of the factory
\* (self), the objects the callers share (heap) and, for each caller, where
\* it is in its call (pc), the object it passed (input), the branch of
\* convert it took (route) and what it got (output).
VARIABLES self, heap, pc, input, route, output

callers == <<self, heap, pc, input, route, output>>

vars == <<op, arg, ret, orig, self, heap, pc, input, route, output>>

-----------------------------------------------------------------------------
(* Bounds of the model. *)

\* Longest byte string used as key material or certificate value.
MaxBytes == 1

\* Longest list of cryptographic usage masks.
MaxMasks == 2

\* Number of callers that use the factory at once.
NumThreads == 2

-----------------------------------------------------------------------------
(* Python values. *)

None == [py |-> "NoneType"]

PyInt(n) == [py |-> "int", int |-> n]

PyStr(s) == [py |-> "str", str |-> s]

PyBytes(b) == [py |-> "bytes", bytes |-> b]

PyList(s) == [py |-> "list", list |-> s]

Enum(c, n) == [py |-> "enum", enum |-> c, name |-> n]

\* The empty mapping {}.
EmptyDict == [py |-> "dict", empty |-> TRUE]

\* Python truthiness of the values the factory tests with `if x:`: None and
\* the empty mapping are false, a non-empty mapping and an object are true.
Truthy(v) == v # None /\ v # EmptyDict

SeqsUpTo(S, n) == UNION {[1..k -> S] : k \in 0..n}

ByteValues == {0, 255}

ByteStrings == {PyBytes(b) : b \in SeqsUpTo(ByteValues, MaxBytes)}

\* One fixed byte string, for the fields whose content the converter does not
\* depend on.
SomeBytes == PyBytes(<<255>>)

-----------------------------------------------------------------------------
(* Outcomes of a call: a returned value or a raised exception. *)

Return(v) == [kind |-> "return", value |-> v]

Raise(e, m) == [kind |-> "raise", exc |-> e, msg |-> m]

NoResult == [kind |-> "none"]

Returned(r) == r.kind = "return"

Raised(r) == r.kind = "raise"

\* Reading attribute `.value` (or any attribute) of None.
AttributeErrorOnNone == Raise("AttributeError", "NoneType has no attribute")

-----------------------------------------------------------------------------
(* Enumerations of kmip.core.enums used by the converter and the tests. *)

X_509 == Enum("CertificateType", "X_509")

PGP == Enum("CertificateType", "PGP")

CertificateTypes == {X_509, PGP}

ENCRYPT == Enum("CryptographicUsageMask", "ENCRYPT")

VERIFY == Enum("CryptographicUsageMask", "VERIFY")

CryptographicUsageMasks == {ENCRYPT, VERIFY}

RAW == Enum("KeyFormatType", "RAW")

OPAQUE == Enum("KeyFormatType", "OPAQUE")

PKCS_1 == Enum("KeyFormatType", "PKCS_1")

KeyFormatTypes == {RAW, OPAQUE, PKCS_1}

AES == Enum("CryptographicAlgorithm", "AES")

RSA == Enum("CryptographicAlgorithm", "RSA")

CryptographicAlgorithms == {AES, RSA}

CryptographicLengths == {PyInt(128), PyInt(2048)}

SecretDataTypes == {Enum("SecretDataType", "PASSWORD"), Enum("SecretDataType", "SEED")}

OpaqueDataTypes == {Enum("OpaqueDataType", "NONE")}

SplitKeyMethods == {Enum("SplitKeyMethod", "XOR"),
                    Enum("SplitKeyMethod", "POLYNOMIAL_SHARING_PRIME_FIELD")}

CERTIFICATE == Enum("ObjectType", "CERTIFICATE")

-----------------------------------------------------------------------------
(* Objects: an instance is a record tagged with its class.  *)

\* A core primitive or attribute holding one value, read as `.value`.
Wrap(c, v) == [py |-> "object", cls |-> c, value |-> v]

PieKeyClasses == {"pie.SymmetricKey", "pie.PublicKey", "pie.PrivateKey"}

CoreKeyClasses == {"core.SymmetricKey", "core.PublicKey", "core.PrivateKey"}

\* The classes convert tests with isinstance, in the order it tests them.
DispatchOrder == <<"pie.SymmetricKey", "core.SymmetricKey",
                   "pie.PublicKey", "core.PublicKey",
                   "pie.PrivateKey", "core.PrivateKey",
                   "pie.Certificate", "core.Certificate",
                   "pie.SecretData", "core.SecretData",
                   "pie.OpaqueObject", "core.OpaqueObject",
                   "pie.SplitKey", "core.SplitKey">>

\* The base classes of a class (the concrete certificates derive from the
\* abstract pie Certificate).
Bases(c) ==
    CASE c = "pie.X509Certificate" -> {"pie.Certificate"}
      [] c = "DummyCertificate" -> {"pie.Certificate"}
      [] OTHER -> {}

IsInstance(obj, c) ==
    /\ obj.py = "object"
    /\ (obj.cls = c \/ c \in Bases(obj.cls))

\* The universe ("pie" or "core") and the logical variant of a dispatch class.
Universe(c) ==
    IF c \in {"pie.SymmetricKey", "pie.PublicKey", "pie.PrivateKey",
              "pie.Certificate", "pie.SecretData", "pie.OpaqueObject",
              "pie.SplitKey"}
    THEN "pie" ELSE "core"

Variant(c) ==
    CASE c \in {"pie.SymmetricKey", "core.SymmetricKey"} -> "SymmetricKey"
      [] c \in {"pie.PublicKey", "core.PublicKey"} -> "PublicKey"
      [] c \in {"pie.PrivateKey", "core.PrivateKey"} -> "PrivateKey"
      [] c \in {"pie.Certificate", "core.Certificate"} -> "Certificate"
      [] c \in {"pie.SecretData", "core.SecretData"} -> "SecretData"
      [] c \in {"pie.OpaqueObject", "core.OpaqueObject"} -> "OpaqueObject"
      [] c \in {"pie.SplitKey", "core.SplitKey"} -> "SplitKey"

\* The dispatch classes an object is an instance of.
ClassesOf(obj) ==
    {DispatchOrder[i] : i \in {j \in DOMAIN DispatchOrder :
                                  IsInstance(obj, DispatchOrder[j])}}

Recognized(obj) == obj.py = "object" /\ ClassesOf(obj) # {}

-----------------------------------------------------------------------------
(* The Pie (simplified) object classes, kmip.pie.objects. *)

\* pobjects.SymmetricKey(algorithm, length, value, key_wrapping_data=...):
\* a symmetric key has the single canonical format type RAW, whatever it is
\* built from.
PieSymmetricKey(algorithm, length, value, key_wrapping_data) ==
    [py |-> "object", cls |-> "pie.SymmetricKey",
     cryptographic_algorithm |-> algorithm,
     cryptographic_length |-> length,
     value |-> value,
     key_format_type |-> RAW,
     key_wrapping_data |-> key_wrapping_data]

\* pobjects.PublicKey / pobjects.PrivateKey(algorithm, length, value,
\* format_type, key_wrapping_data=...): the format type is the one given.
PieAsymmetricKey(c, algorithm, length, value, format_type, key_wrapping_data) ==
    [py |-> "object", cls |-> c,
     cryptographic_algorithm |-> algorithm,
     cryptographic_length |-> length,
     value |-> value,
     key_format_type |-> format_type,
     key_wrapping_data |-> key_wrapping_data]

\* pobjects.SecretData(value, data_type)
PieSecretData(value, data_type) ==
    [py |-> "object", cls |-> "pie.SecretData",
     value |-> value, data_type |-> data_type]

\* pobjects.OpaqueObject(value, opaque_type)
PieOpaqueObject(value, opaque_type) ==
    [py |-> "object", cls |-> "pie.OpaqueObject",
     value |-> value, opaque_type |-> opaque_type]

\* pobjects.SplitKey(cryptographic_algorithm=..., ..., prime_field_size=...)
PieSplitKey(algorithm, length, value, format_type, key_wrapping_data, parts, identifier, threshold, method, prime) ==
    [py |-> "object", cls |-> "pie.SplitKey",
     cryptographic_algorithm |-> algorithm,
     cryptographic_length |-> length,
     value |-> value,
     key_format_type |-> format_type,
     key_wrapping_data |-> key_wrapping_data,
     split_key_parts |-> parts,
     key_part_identifier |-> identifier,
     split_key_threshold |-> threshold,
     split_key_method |-> method,
     prime_field_size |-> prime]

-----------------------------------------------------------------------------
(* The Certificate entity, kmip.pie.objects.Certificate, and its concrete  *)
(* specializations.                                                        *)

\* An argument left out of a call, so that the callee's default applies.
Unspecified == [py |-> "unspecified"]

Default(v, d) == IF v = Unspecified THEN d ELSE v

ConcreteCertificateClasses == {"DummyCertificate", "pie.X509Certificate"}

\* Certificate.validate: the types of the four fields.
ValidCertificateFields(certificate_type, value, masks, names) ==
    /\ certificate_type \in CertificateTypes
    /\ value.py = "bytes"
    /\ masks.py = "list"
    /\ \A i \in DOMAIN masks.list : masks.list[i] \in CryptographicUsageMasks
    /\ names.py = "list"
    /\ \A i \in DOMAIN names.list : names.list[i].py = "str"

\* A slip of Certificate: the class is not abstract.
CertificateInitInstantiable(c, certificate_type, value, masks, name) ==
    LET usage_masks == IF masks = None THEN PyList(<<>>) ELSE masks
        names == PyList(<<name>>)
    IN  IF ~ValidCertificateFields(certificate_type, value, usage_masks, names)
        THEN Raise("TypeError", "invalid certificate field")
        ELSE Return([py |-> "object", cls |-> c,
                     object_type |-> CERTIFICATE,
                     certificate_type |-> certificate_type,
                     value |-> value,
                     cryptographic_usage_masks |-> usage_masks,
                     names |-> names])

\* Certificate.__init__(certificate_type, value, masks=None, name="Certificate")
\* run for an instance of class c: the masks default to the empty list and
\* are otherwise the given ones, names is the one-element list of the name,
\* and the fields are then validated.  The abstract class itself cannot be
\* instantiated.
CertificateInit(c, certificate_type, value, masks, name) ==
    LET usage_masks == IF masks = None THEN PyList(<<>>) ELSE masks
        names == PyList(<<name>>)
    IN  IF c \notin ConcreteCertificateClasses
        THEN Raise("TypeError", "abstract class")
        ELSE IF ~ValidCertificateFields(certificate_type, value, usage_masks, names)
        THEN Raise("TypeError", "invalid certificate field")
        ELSE Return([py |-> "object", cls |-> c,
                     object_type |-> CERTIFICATE,
                     certificate_type |-> certificate_type,
                     value |-> value,
                     cryptographic_usage_masks |-> usage_masks,
                     names |-> names])

\* A slip of DummyCertificate.__init__: the masks are not passed on.
DummyCertificateDropsMasks(certificate_type, value, masks, name) ==
    CertificateInit("DummyCertificate", certificate_type, value,
                    None, Default(name, PyStr("Certificate")))

\* A slip of DummyCertificate.__init__: another default name.
DummyCertificateBadDefault(certificate_type, value, masks, name) ==
    CertificateInit("DummyCertificate", certificate_type, value,
                    Default(masks, None), Default(name, PyStr("")))

\* DummyCertificate(certificate_type, value, masks=None, name="Certificate")
DummyCertificate(certificate_type, value, masks, name) ==
    CertificateInit("DummyCertificate", certificate_type, value,
                    Default(masks, None), Default(name, PyStr("Certificate")))

\* objects.Certificate(certificate_type, value, masks=None, name="Certificate"),
\* the direct instantiation of the abstract class.
AbstractCertificate(certificate_type, value, masks, name) ==
    CertificateInit("pie.Certificate", certificate_type, value,
                    Default(masks, None), Default(name, PyStr("Certificate")))

\* pobjects.X509Certificate(value, masks=None, name=<placeholder>): the
\* certificate type is fixed to X_509.
X509Certificate(value, masks, name) ==
    CertificateInit("pie.X509Certificate", X_509, value,
                    Default(masks, None), Default(name, PyStr("Certificate")))

-----------------------------------------------------------------------------
(* The core (protocol) object classes: kmip.core.objects, kmip.core.misc,  *)
(* kmip.core.attributes and kmip.core.secrets.                             *)

KeyMaterial(value) == Wrap("KeyMaterial", value)

KeyValue(key_material) ==
    [py |-> "object", cls |-> "KeyValue", key_material |-> key_material]

KeyFormatType(value) == Wrap("KeyFormatType", value)

CryptographicAlgorithm(value) == Wrap("CryptographicAlgorithm", value)

CryptographicLength(value) == Wrap("CryptographicLength", value)

KeyBlock(key_format_type, key_compression_type, key_value, cryptographic_algorithm, cryptographic_length, key_wrapping_data) ==
    [py |-> "object", cls |-> "KeyBlock",
     key_format_type |-> key_format_type,
     key_compression_type |-> key_compression_type,
     key_value |-> key_value,
     cryptographic_algorithm |-> cryptographic_algorithm,
     cryptographic_length |-> cryptographic_length,
     key_wrapping_data |-> key_wrapping_data]

\* cobjects.CryptographicParameters(**mapping)
CryptographicParameters(m) ==
    [py |-> "object", cls |-> "CryptographicParameters",
     block_cipher_mode |-> m.block_cipher_mode,
     padding_method |-> m.padding_method,
     hashing_algorithm |-> m.hashing_algorithm,
     key_role_type |-> m.key_role_type,
     digital_signature_algorithm |-> m.digital_signature_algorithm,
     cryptographic_algorithm |-> m.cryptographic_algorithm,
     random_iv |-> m.random_iv,
     iv_length |-> m.iv_length,
     tag_length |-> m.tag_length,
     fixed_field_length |-> m.fixed_field_length,
     invocation_field_length |-> m.invocation_field_length,
     counter_length |-> m.counter_length,
     initial_counter_value |-> m.initial_counter_value]

\* A key-information sub-block of the wrapping data, built from its mapping:
\* the empty mapping stands for an absent sub-block.
KeyInformation(c, m) ==
    IF m = EmptyDict
    THEN None
    ELSE [py |-> "object", cls |-> c,
          unique_identifier |-> m.unique_identifier,
          cryptographic_parameters |->
              CryptographicParameters(m.cryptographic_parameters)]

\* cobjects.KeyWrappingData(**mapping)
KeyWrappingData(m) ==
    [py |-> "object", cls |-> "KeyWrappingData",
     wrapping_method |-> m.wrapping_method,
     encryption_key_information |->
         KeyInformation("EncryptionKeyInformation", m.encryption_key_information),
     mac_signature_key_information |->
         KeyInformation("MACSignatureKeyInformation",
                        m.mac_signature_key_information),
     mac_signature |-> m.mac_signature,
     iv_counter_nonce |-> m.iv_counter_nonce,
     encoding_option |-> m.encoding_option]

\* secrets.SymmetricKey / PublicKey / PrivateKey(key_block)
CoreKey(c, key_block) ==
    [py |-> "object", cls |-> c, key_block |-> key_block]

\* secrets.Certificate(certificate_type, certificate_value): the two values
\* are held in a CertificateType and a CertificateValue primitive.
CoreCertificate(certificate_type, certificate_value) ==
    [py |-> "object", cls |-> "core.Certificate",
     certificate_type |-> Wrap("CertificateType", certificate_type),
     certificate_value |-> Wrap("CertificateValue", certificate_value)]

\* secrets.SecretData(secret_data_type, key_block)
CoreSecretData(secret_data_type, key_block) ==
    [py |-> "object", cls |-> "core.SecretData",
     secret_data_type |-> secret_data_type,
     key_block |-> key_block]

\* secrets.OpaqueObject(opaque_data_type, opaque_data_value)
CoreOpaqueObject(opaque_data_type, opaque_data_value) ==
    [py |-> "object", cls |-> "core.OpaqueObject",
     opaque_data_type |-> opaque_data_type,
     opaque_data_value |-> opaque_data_value]

\* secrets.SplitKey(split_key_parts=..., ..., key_block=...)
CoreSplitKey(parts, identifier, threshold, method, prime, key_block) ==
    [py |-> "object", cls |-> "core.SplitKey",
     split_key_parts |-> parts,
     key_part_identifier |-> identifier,
     split_key_threshold |-> threshold,
     split_key_method |-> method,
     prime_field_size |-> prime,
     key_block |-> key_block]

-----------------------------------------------------------------------------
(* kmip.pie.factory.ObjectFactory *)

\* A slip of the last branch of convert: nothing is raised and the call
\* returns None.
UnsupportedVariantReturnsNone == Return(None)

UnsupportedVariant ==
    Raise("TypeError", "object type unsupported and cannot be converted")

UnsupportedCertificateType ==
    Raise("TypeError", "core certificate type not supported")

FormatMismatch ==
    Raise("TypeError",
          "core key format type not compatible with Pie SymmetricKey")

\* ObjectFactory._build_cryptographic_parameters(value)
_build_cryptographic_parameters(value) ==
    IF value = None
    THEN AttributeErrorOnNone
    ELSE Return([py |-> "dict",
                 block_cipher_mode |-> value.block_cipher_mode,
                 padding_method |-> value.padding_method,
                 hashing_algorithm |-> value.hashing_algorithm,
                 key_role_type |-> value.key_role_type,
                 digital_signature_algorithm |-> value.digital_signature_algorithm,
                 cryptographic_algorithm |-> value.cryptographic_algorithm,
                 random_iv |-> value.random_iv,
                 iv_length |-> value.iv_length,
                 tag_length |-> value.tag_length,
                 fixed_field_length |-> value.fixed_field_length,
                 invocation_field_length |-> value.invocation_field_length,
                 counter_length |-> value.counter_length,
                 initial_counter_value |-> value.initial_counter_value])

\* The mapping built for one key-information sub-block (lines 247-254 and
\* 256-263): the empty mapping when the sub-block is absent.
_build_key_information(info) ==
    IF ~Truthy(info)
    THEN Return(EmptyDict)
    ELSE LET params == _build_cryptographic_parameters(info.cryptographic_parameters)
         IN  IF Raised(params)
             THEN params
             ELSE Return([py |-> "dict",
                          unique_identifier |-> info.unique_identifier,
                          cryptographic_parameters |-> params.value])

\* A slip of _build_key_wrapping_data: absent wrapping data comes back as
\* the empty mapping.
_build_key_wrapping_data_empty(value) ==
    IF value = None
    THEN Return(EmptyDict)
    ELSE LET encryption_key_information ==
                 _build_key_information(value.encryption_key_information)
             mac_signature_key_information ==
                 _build_key_information(value.mac_signature_key_information)
         IN  IF Raised(encryption_key_information)
             THEN encryption_key_information
             ELSE IF Raised(mac_signature_key_information)
             THEN mac_signature_key_information
             ELSE Return([py |-> "dict",
                          wrapping_method |-> value.wrapping_method,
                          encryption_key_information |->
                              encryption_key_information.value,
                          mac_signature_key_information |->
                              mac_signature_key_information.value,
                          mac_signature |-> value.mac_signature,
                          iv_counter_nonce |-> value.iv_counter_nonce,
                          encoding_option |-> value.encoding_option])

\* ObjectFactory._build_key_wrapping_data(value)
_build_key_wrapping_data(value) ==
    IF value = None
    THEN Return(None)
    ELSE LET encryption_key_information ==
                 _build_key_information(value.encryption_key_information)
             mac_signature_key_information ==
                 _build_key_information(value.mac_signature_key_information)
         IN  IF Raised(encryption_key_information)
             THEN encryption_key_information
             ELSE IF Raised(mac_signature_key_information)
             THEN mac_signature_key_information
             ELSE Return([py |-> "dict",
                          wrapping_method |-> value.wrapping_method,
                          encryption_key_information |->
                              encryption_key_information.value,
                          mac_signature_key_information |->
                              mac_signature_key_information.value,
                          mac_signature |-> value.mac_signature,
                          iv_counter_nonce |-> value.iv_counter_nonce,
                          encoding_option |-> value.encoding_option])

\* A slip of _build_pie_certificate: the certificate type is not looked at.
_build_pie_certificate_any_type(cert) ==
    X509Certificate(cert.certificate_value.value, Unspecified, Unspecified)

\* ObjectFactory._build_pie_certificate(cert)
_build_pie_certificate(cert) ==
    LET certificate_type == cert.certificate_type.value
        value == cert.certificate_value.value
    IN  IF certificate_type = X_509
        THEN X509Certificate(value, Unspecified, Unspecified)
        ELSE UnsupportedCertificateType

\* A slip of _build_pie_key: the symmetric key is returned without the
\* comparison of its format type with the declared one.
_build_pie_key_unchecked(key, cls) ==
    IF \/ key.key_block.cryptographic_algorithm = None
       \/ key.key_block.cryptographic_length = None
    THEN AttributeErrorOnNone
    ELSE LET algorithm == key.key_block.cryptographic_algorithm.value
             length == key.key_block.cryptographic_length.value
             value == key.key_block.key_value.key_material.value
             format_type == key.key_block.key_format_type.value
             key_wrapping_data ==
                 _build_key_wrapping_data(key.key_block.key_wrapping_data)
         IN  IF Raised(key_wrapping_data)
             THEN key_wrapping_data
             ELSE IF cls = "pie.SymmetricKey"
             THEN Return(PieSymmetricKey(algorithm, length, value,
                                         key_wrapping_data.value))
             ELSE Return(PieAsymmetricKey(cls, algorithm, length, value,
                                          format_type, key_wrapping_data.value))

\* ObjectFactory._build_pie_key(key, cls)
_build_pie_key(key, cls) ==
    IF \/ key.key_block.cryptographic_algorithm = None
       \/ key.key_block.cryptographic_length = None
    THEN AttributeErrorOnNone
    ELSE LET algorithm == key.key_block.cryptographic_algorithm.value
             length == key.key_block.cryptographic_length.value
             value == key.key_block.key_value.key_material.value
             format_type == key.key_block.key_format_type.value
             key_wrapping_data ==
                 _build_key_wrapping_data(key.key_block.key_wrapping_data)
         IN  IF Raised(key_wrapping_data)
             THEN key_wrapping_data
             ELSE IF cls = "pie.SymmetricKey"
             THEN LET k == PieSymmetricKey(algorithm, length, value,
                                           key_wrapping_data.value)
                  IN  IF k.key_format_type # format_type
                      THEN FormatMismatch
                      ELSE Return(k)
             ELSE Return(PieAsymmetricKey(cls, algorithm, length, value,
                                          format_type, key_wrapping_data.value))

\* A slip of _build_pie_secret_data: it builds the wrong Pie class.
_build_pie_secret_data_as_opaque(secret) ==
    LET secret_data_type == secret.secret_data_type.value
        value == secret.key_block.key_value.key_material.value
    IN  Return(PieOpaqueObject(value, secret_data_type))

\* ObjectFactory._build_pie_secret_data(secret)
_build_pie_secret_data(secret) ==
    LET secret_data_type == secret.secret_data_type.value
        value == secret.key_block.key_value.key_material.value
    IN  Return(PieSecretData(value, secret_data_type))

\* ObjectFactory._build_pie_opaque_object(obj)
_build_pie_opaque_object(obj) ==
    LET opaque_type == obj.opaque_data_type.value
        value == obj.opaque_data_value.value
    IN  Return(PieOpaqueObject(value, opaque_type))

\* A slip of _build_pie_split_key: the number of parts is passed as the key
\* part identifier too.
_build_pie_split_key_parts_twice(secret) ==
    IF \/ secret.key_block.cryptographic_algorithm = None
       \/ secret.key_block.cryptographic_length = None
    THEN AttributeErrorOnNone
    ELSE LET algorithm == secret.key_block.cryptographic_algorithm.value
             key_wrapping_data ==
                 _build_key_wrapping_data(secret.key_block.key_wrapping_data)
         IN  IF Raised(key_wrapping_data)
             THEN key_wrapping_data
             ELSE Return(PieSplitKey(
                      algorithm,
                      secret.key_block.cryptographic_length.value,
                      secret.key_block.key_value.key_material.value,
                      secret.key_block.key_format_type.value,
                      key_wrapping_data.value,
                      secret.split_key_parts,
                      secret.split_key_parts,
                      secret.split_key_threshold,
                      secret.split_key_method,
                      secret.prime_field_size))

\* ObjectFactory._build_pie_split_key(secret)
_build_pie_split_key(secret) ==
    IF \/ secret.key_block.cryptographic_algorithm = None
       \/ secret.key_block.cryptographic_length = None
    THEN AttributeErrorOnNone
    ELSE LET algorithm == secret.key_block.cryptographic_algorithm.value
             key_wrapping_data ==
                 _build_key_wrapping_data(secret.key_block.key_wrapping_data)
         IN  IF Raised(key_wrapping_data)
             THEN key_wrapping_data
             ELSE Return(PieSplitKey(
                      algorithm,
                      secret.key_block.cryptographic_length.value,
                      secret.key_block.key_value.key_material.value,
                      secret.key_block.key_format_type.value,
                      key_wrapping_data.value,
                      secret.split_key_parts,
                      secret.key_part_identifier,
                      secret.split_key_threshold,
                      secret.split_key_method,
                      secret.prime_field_size))

\* A slip of _build_core_key: the wrapping data is never attached.
_build_core_key_unwrapped(key, cls) ==
    LET algorithm == key.cryptographic_algorithm
        length == key.cryptographic_length
        value == key.value
        format_type == key.key_format_type
        key_material == KeyMaterial(value)
        key_value == KeyValue(key_material)
        key_block == KeyBlock(KeyFormatType(format_type), None, key_value,
                              CryptographicAlgorithm(algorithm),
                              CryptographicLength(length), None)
    IN  Return(CoreKey(cls, key_block))

\* ObjectFactory._build_core_key(key, cls)
_build_core_key(key, cls) ==
    LET algorithm == key.cryptographic_algorithm
        length == key.cryptographic_length
        value == key.value
        format_type == key.key_format_type
        key_material == KeyMaterial(value)
        key_value == KeyValue(key_material)
        key_wrapping_data ==
            IF Truthy(key.key_wrapping_data)
            THEN KeyWrappingData(key.key_wrapping_data)
            ELSE None
        key_block == KeyBlock(KeyFormatType(format_type), None, key_value,
                              CryptographicAlgorithm(algorithm),
                              CryptographicLength(length), key_wrapping_data)
    IN  Return(CoreKey(cls, key_block))

\* ObjectFactory._build_core_certificate(cert)
_build_core_certificate(cert) ==
    Return(CoreCertificate(cert.certificate_type, cert.value))

\* A slip of _build_core_secret_data: the key block is given the format
\* type RAW of a key.
_build_core_secret_data_raw(secret) ==
    LET secret_data_type == secret.data_type
        value == secret.value
        key_material == KeyMaterial(value)
        key_value == KeyValue(key_material)
        key_block == KeyBlock(KeyFormatType(RAW), None, key_value,
                              None, None, None)
        data_type == Wrap("SecretDataType", secret_data_type)
    IN  Return(CoreSecretData(data_type, key_block))

\* ObjectFactory._build_core_secret_data(secret)
_build_core_secret_data(secret) ==
    LET secret_data_type == secret.data_type
        value == secret.value
        key_material == KeyMaterial(value)
        key_value == KeyValue(key_material)
        key_block == KeyBlock(KeyFormatType(OPAQUE), None, key_value,
                              None, None, None)
        data_type == Wrap("SecretDataType", secret_data_type)
    IN  Return(CoreSecretData(data_type, key_block))

\* ObjectFactory._build_core_split_key(secret)
_build_core_split_key(secret) ==
    LET key_material == KeyMaterial(secret.value)
        key_value == KeyValue(key_material)
        key_wrapping_data ==
            IF Truthy(secret.key_wrapping_data)
            THEN KeyWrappingData(secret.key_wrapping_data)
            ELSE None
        key_block == KeyBlock(KeyFormatType(secret.key_format_type), None,
                              key_value,
                              CryptographicAlgorithm(secret.cryptographic_algorithm),
                              CryptographicLength(secret.cryptographic_length),
                              key_wrapping_data)
    IN  Return(CoreSplitKey(secret.split_key_parts,
                            secret.key_part_identifier,
                            secret.split_key_threshold,
                            secret.split_key_method,
                            secret.prime_field_size,
                            key_block))

\* ObjectFactory._build_core_opaque_object(obj)
_build_core_opaque_object(obj) ==
    LET opaque_type == obj.opaque_type
        value == obj.value
        opaque_data_type == Wrap("OpaqueDataType", opaque_type)
        opaque_data_value == Wrap("OpaqueDataValue", value)
    IN  Return(CoreOpaqueObject(opaque_data_type, opaque_data_value))

\* ObjectFactory.convert(obj)
convert(obj) ==
    IF IsInstance(obj, "pie.SymmetricKey")
    THEN _build_core_key(obj, "core.SymmetricKey")
    ELSE IF IsInstance(obj, "core.SymmetricKey")
    THEN _build_pie_key(obj, "pie.SymmetricKey")
    ELSE IF IsInstance(obj, "pie.PublicKey")
    THEN _build_core_key(obj, "core.PublicKey")
    ELSE IF IsInstance(obj, "core.PublicKey")
    THEN _build_pie_key(obj, "pie.PublicKey")
    ELSE IF IsInstance(obj, "pie.PrivateKey")
    THEN _build_core_key(obj, "core.PrivateKey")
    ELSE IF IsInstance(obj, "core.PrivateKey")
    THEN _build_pie_key(obj, "pie.PrivateKey")
    ELSE IF IsInstance(obj, "pie.Certificate")
    THEN _build_core_certificate(obj)
    ELSE IF IsInstance(obj, "core.Certificate")
    THEN _build_pie_certificate(obj)
    ELSE IF IsInstance(obj, "pie.SecretData")
    THEN _build_core_secret_data(obj)
    ELSE IF IsInstance(obj, "core.SecretData")
    THEN _build_pie_secret_data(obj)
    ELSE IF IsInstance(obj, "pie.OpaqueObject")
    THEN _build_core_opaque_object(obj)
    ELSE IF IsInstance(obj, "core.OpaqueObject")
    THEN _build_pie_opaque_object(obj)
    ELSE IF IsInstance(obj, "pie.SplitKey")
    THEN _build_core_split_key(obj)
    ELSE IF IsInstance(obj, "core.SplitKey")
    THEN _build_pie_split_key(obj)
    ELSE UnsupportedVariant

-----------------------------------------------------------------------------
(* The objects handed to the converter.                                    *)

PyBool(b) == [py |-> "bool", bool |-> b]

\* Cryptographic parameters as a mapping: every field absent, and every
\* field set to a value of its own.
NoParameters ==
    [py |-> "dict",
     block_cipher_mode |-> None, padding_method |-> None,
     hashing_algorithm |-> None, key_role_type |-> None,
     digital_signature_algorithm |-> None, cryptographic_algorithm |-> None,
     random_iv |-> None, iv_length |-> None, tag_length |-> None,
     fixed_field_length |-> None, invocation_field_length |-> None,
     counter_length |-> None, initial_counter_value |-> None]

AllParameters ==
    [py |-> "dict",
     block_cipher_mode |-> Enum("BlockCipherMode", "CBC"),
     padding_method |-> Enum("PaddingMethod", "PKCS5"),
     hashing_algorithm |-> Enum("HashingAlgorithm", "SHA_256"),
     key_role_type |-> Enum("KeyRoleType", "KEK"),
     digital_signature_algorithm |->
         Enum("DigitalSignatureAlgorithm", "SHA256_WITH_RSA_ENCRYPTION"),
     cryptographic_algorithm |-> AES,
     random_iv |-> PyBool(TRUE),
     iv_length |-> PyInt(96),
     tag_length |-> PyInt(128),
     fixed_field_length |-> PyInt(32),
     invocation_field_length |-> PyInt(64),
     counter_length |-> PyInt(0),
     initial_counter_value |-> PyInt(1)]

ParameterMappings == {NoParameters, AllParameters}

WrappingMethods == {Enum("WrappingMethod", "ENCRYPT"),
                    Enum("WrappingMethod", "MAC_SIGN")}

\* The last three fields of the wrapping data: all absent, or each with a
\* value of its own.
WrappingTails ==
    {[mac_signature |-> None, iv_counter_nonce |-> None, encoding_option |-> None],
     [mac_signature |-> PyBytes(<<0>>), iv_counter_nonce |-> PyBytes(<<255>>),
      encoding_option |-> Enum("EncodingOption", "NO_ENCODING")]}

\* Pie side: a key-information mapping is empty or holds both entries.
PieKeyInformations ==
    {EmptyDict} \cup
    {[py |-> "dict", unique_identifier |-> PyStr("100"),
      cryptographic_parameters |-> m] : m \in ParameterMappings}

PieWrappingMappings ==
    {[py |-> "dict", wrapping_method |-> w,
      encryption_key_information |-> e,
      mac_signature_key_information |-> k,
      mac_signature |-> t.mac_signature,
      iv_counter_nonce |-> t.iv_counter_nonce,
      encoding_option |-> t.encoding_option] :
        w \in WrappingMethods, e \in PieKeyInformations,
        k \in PieKeyInformations, t \in WrappingTails}

\* The key_wrapping_data of a Pie key: absent, the empty mapping, or a
\* mapping with the six entries.
PieWrappings == {None, EmptyDict} \cup PieWrappingMappings

SomePieWrapping ==
    [py |-> "dict", wrapping_method |-> Enum("WrappingMethod", "ENCRYPT"),
     encryption_key_information |->
         [py |-> "dict", unique_identifier |-> PyStr("100"),
          cryptographic_parameters |-> AllParameters],
     mac_signature_key_information |-> EmptyDict,
     mac_signature |-> None, iv_counter_nonce |-> None,
     encoding_option |-> None]

\* Core side: a key-information sub-block is absent, or present with its
\* cryptographic parameters absent or present.
CoreKeyInformations(c) ==
    {None} \cup
    {[py |-> "object", cls |-> c, unique_identifier |-> PyStr("100"),
      cryptographic_parameters |-> p] :
        p \in {None} \cup {CryptographicParameters(m) : m \in ParameterMappings}}

CoreWrappingObjects ==
    {[py |-> "object", cls |-> "KeyWrappingData",
      wrapping_method |-> w,
      encryption_key_information |-> e,
      mac_signature_key_information |-> k,
      mac_signature |-> t.mac_signature,
      iv_counter_nonce |-> t.iv_counter_nonce,
      encoding_option |-> t.encoding_option] :
        w \in WrappingMethods,
        e \in CoreKeyInformations("EncryptionKeyInformation"),
        k \in CoreKeyInformations("MACSignatureKeyInformation"),
        t \in WrappingTails}

CoreWrappings == {None} \cup CoreWrappingObjects

SomeCoreWrapping == KeyWrappingData(SomePieWrapping)

\* Pie keys: every combination of the scalar fields with a few wrappings,
\* and every wrapping with one combination of the scalar fields.  A Pie
\* symmetric key always has the format type RAW.
PieKeys ==
    {PieSymmetricKey(a, l, v, w) :
        a \in CryptographicAlgorithms, l \in CryptographicLengths,
        v \in ByteStrings, w \in {None, EmptyDict, SomePieWrapping}}
    \cup
    {PieAsymmetricKey(c, a, l, v, f, w) :
        c \in {"pie.PublicKey", "pie.PrivateKey"},
        a \in CryptographicAlgorithms, l \in CryptographicLengths,
        v \in ByteStrings, f \in KeyFormatTypes,
        w \in {None, EmptyDict, SomePieWrapping}}
    \cup
    {PieSymmetricKey(AES, PyInt(128), SomeBytes, w) : w \in PieWrappings}
    \cup
    {PieAsymmetricKey(c, RSA, PyInt(2048), SomeBytes, PKCS_1, w) :
        c \in {"pie.PublicKey", "pie.PrivateKey"}, w \in PieWrappings}

KeyCompressionTypes ==
    {None, Enum("KeyCompressionType", "EC_PUBLIC_KEY_TYPE_UNCOMPRESSED")}

\* Key blocks: the algorithm and the length are optional in a key block.
CoreKeyBlocks ==
    {KeyBlock(KeyFormatType(f), z, KeyValue(KeyMaterial(v)), a, l, w) :
        f \in KeyFormatTypes, z \in KeyCompressionTypes, v \in ByteStrings,
        a \in {None} \cup {CryptographicAlgorithm(x) : x \in CryptographicAlgorithms},
        l \in {None} \cup {CryptographicLength(x) : x \in CryptographicLengths},
        w \in {None, SomeCoreWrapping}}
    \cup
    {KeyBlock(KeyFormatType(f), None, KeyValue(KeyMaterial(SomeBytes)),
              CryptographicAlgorithm(AES), CryptographicLength(PyInt(128)), w) :
        f \in {RAW, PKCS_1}, w \in CoreWrappings}

CoreKeys == {CoreKey(c, b) : c \in CoreKeyClasses, b \in CoreKeyBlocks}

\* The sharing parameters of a split key, consistent ones and inconsistent
\* ones (an identifier or a threshold above the number of parts).
SplitKeyParts == {PyInt(2), PyInt(3)}

KeyPartIdentifiers == {PyInt(1), PyInt(4)}

SplitKeyThresholds == {PyInt(2), PyInt(5)}

PrimeFieldSizes == {None, PyInt(257)}

PieSplitKeys ==
    {PieSplitKey(AES, l, SomeBytes, f, w, n, i, t, m, q) :
        l \in CryptographicLengths, f \in {RAW, OPAQUE},
        w \in {None, EmptyDict, SomePieWrapping},
        n \in SplitKeyParts, i \in KeyPartIdentifiers,
        t \in SplitKeyThresholds, m \in SplitKeyMethods, q \in PrimeFieldSizes}

CoreSplitKeys ==
    {CoreSplitKey(n, i, t, m, q,
                  KeyBlock(KeyFormatType(f), None, KeyValue(KeyMaterial(SomeBytes)),
                           a, CryptographicLength(PyInt(128)), w)) :
        n \in SplitKeyParts, i \in KeyPartIdentifiers,
        t \in SplitKeyThresholds, m \in SplitKeyMethods, q \in PrimeFieldSizes,
        f \in {RAW, OPAQUE}, a \in {None, CryptographicAlgorithm(AES)},
        w \in {None, SomeCoreWrapping}}

PieSecretDatas ==
    {PieSecretData(v, t) : v \in ByteStrings, t \in SecretDataTypes}

CoreSecretDatas ==
    {CoreSecretData(Wrap("SecretDataType", t),
                    KeyBlock(KeyFormatType(f), None, KeyValue(KeyMaterial(v)),
                             a, None, None)) :
        t \in SecretDataTypes, f \in {OPAQUE, RAW}, v \in ByteStrings,
        a \in {None, CryptographicAlgorithm(AES)}}

PieOpaqueObjects ==
    {PieOpaqueObject(v, t) : v \in ByteStrings, t \in OpaqueDataTypes}

CoreOpaqueObjects ==
    {CoreOpaqueObject(Wrap("OpaqueDataType", t), Wrap("OpaqueDataValue", v)) :
        v \in ByteStrings, t \in OpaqueDataTypes}

\* Lists of valid usage masks, and the names a certificate is given.
MaskLists == {PyList(s) : s \in SeqsUpTo(CryptographicUsageMasks, MaxMasks)}

CertificateNames == {PyStr("Certificate"), PyStr("Test Certificate")}

\* The Pie certificates: what X509Certificate constructs from valid
\* arguments.
PieCertificates ==
    {X509Certificate(v, m, n).value :
        v \in ByteStrings, m \in MaskLists, n \in CertificateNames}

CoreCertificates ==
    {CoreCertificate(t, v) : t \in CertificateTypes, v \in ByteStrings}

\* Values that belong to neither hierarchy.
ForeignObjects ==
    {None, PyStr("invalid"), PyInt(0), SomeBytes, EmptyDict,
     KeyMaterial(SomeBytes),
     [py |-> "object", cls |-> "pie.ManagedObject"],
     [py |-> "object", cls |-> "object"]}

PieObjects ==
    PieKeys \cup PieSplitKeys \cup PieSecretDatas \cup PieOpaqueObjects
    \cup PieCertificates

CoreObjects ==
    CoreKeys \cup CoreSplitKeys \cup CoreSecretDatas \cup CoreOpaqueObjects
    \cup CoreCertificates

ConverterInputs == PieObjects \cup CoreObjects \cup ForeignObjects

\* The arguments the certificate tests construct with: valid and invalid
\* ones for each parameter.
CertificateTypeArguments == CertificateTypes \cup {PyStr("invalid")}

ValueArguments == ByteStrings \cup {PyInt(0)}

MaskArguments ==
    {Unspecified, PyStr("invalid")} \cup
    {PyList(s) : s \in SeqsUpTo(CryptographicUsageMasks \cup {PyStr("invalid")},
                                MaxMasks)}

NameArguments == {Unspecified, PyStr("Test Certificate"), PyInt(0)}

-----------------------------------------------------------------------------
(* The state machine: the factory and the classes hold no state, so the    *)
(* state is the call in hand (op, arg), its outcome (ret) and, for a       *)
(* conversion of a conversion's result, the object it started from.  A     *)
(* caller makes a call, may convert the result of a conversion in turn,    *)
(* and drops the outcome before the next call.                             *)

NoOrigin == [py |-> "unset"]

Call(c, certificate_type, value, masks, name) ==
    [py |-> "call", cls |-> c, certificate_type |-> certificate_type,
     value |-> value, masks |-> masks, name |-> name]

\* An ObjectFactory has no attribute: __init__ assigns nothing.
InitialAttributes == [py |-> "object", cls |-> "ObjectFactory"]

Threads == 1..NumThreads

\* The objects the concurrent callers share: one of each outcome of convert
\* (a Pie key and a core key that are converted, a core key refused for its
\* format type, a core certificate refused for its type, a value of no
\* known class, and a key block without algorithm).
SharedObjects ==
    <<PieSymmetricKey(AES, PyInt(128), SomeBytes, SomePieWrapping),
      CoreKey("core.PublicKey",
              KeyBlock(KeyFormatType(PKCS_1), None, KeyValue(KeyMaterial(SomeBytes)),
                       CryptographicAlgorithm(RSA), CryptographicLength(PyInt(2048)),
                       SomeCoreWrapping)),
      CoreKey("core.SymmetricKey",
              KeyBlock(KeyFormatType(PKCS_1), None, KeyValue(KeyMaterial(SomeBytes)),
                       CryptographicAlgorithm(AES), CryptographicLength(PyInt(128)),
                       None)),
      CoreCertificate(PGP, SomeBytes),
      PyStr("invalid"),
      CoreKey("core.PrivateKey",
              KeyBlock(KeyFormatType(PKCS_1), None, KeyValue(KeyMaterial(SomeBytes)),
                       None, None, None))>>

NoCallers ==
    /\ self = InitialAttributes
    /\ heap = SharedObjects
    /\ pc = [t \in Threads |-> "idle"]
    /\ input = [t \in Threads |-> 0]
    /\ route = [t \in Threads |-> "none"]
    /\ output = [t \in Threads |-> NoResult]

Init ==
    /\ op = "init"
    /\ arg = None
    /\ ret = NoResult
    /\ orig = NoOrigin
    /\ NoCallers

\* factory.convert(x)
Convert ==
    \E x \in ConverterInputs :
        /\ op = "init"
        /\ op' = "convert"
        /\ arg' = x
        /\ ret' = convert(x)
        /\ orig' = NoOrigin
        /\ UNCHANGED callers

\* factory.convert(factory.convert(x)): the result of a conversion is
\* converted in turn.
ConvertBack ==
    /\ op = "convert"
    /\ orig = NoOrigin
    /\ Returned(ret)
    /\ op' = "convert"
    /\ arg' = ret.value
    /\ ret' = convert(ret.value)
    /\ orig' = arg
    /\ UNCHANGED callers

\* DummyCertificate(certificate_type, value, masks=..., name=...)
ConstructDummy ==
    \E t \in CertificateTypeArguments, v \in ValueArguments,
       m \in MaskArguments, n \in NameArguments :
        /\ op = "init"
        /\ op' = "construct"
        /\ arg' = Call("DummyCertificate", t, v, m, n)
        /\ ret' = DummyCertificate(t, v, m, n)
        /\ orig' = NoOrigin
        /\ UNCHANGED callers

\* objects.Certificate(certificate_type, value, masks=..., name=...)
ConstructAbstract ==
    \E t \in CertificateTypeArguments, v \in ValueArguments,
       m \in MaskArguments, n \in NameArguments :
        /\ op = "init"
        /\ op' = "construct"
        /\ arg' = Call("pie.Certificate", t, v, m, n)
        /\ ret' = AbstractCertificate(t, v, m, n)
        /\ orig' = NoOrigin
        /\ UNCHANGED callers

\* The caller is done with the outcome: nothing of the call is kept.
Drop ==
    /\ op # "init"
    /\ op' = "init"
    /\ arg' = None
    /\ ret' = NoResult
    /\ orig' = NoOrigin
    /\ UNCHANGED callers

Next ==
    \/ Convert
    \/ ConvertBack
    \/ ConstructDummy
    \/ ConstructAbstract
    \/ Drop

Spec == Init /\ [][Next]_vars

-----------------------------------------------------------------------------
(* Properties of the converter. *)

IsCoreKey(x) == x.py = "object" /\ x.cls \in CoreKeyClasses

HasKeyBlock(x) == x.py = "object" /\ x.cls \in CoreKeyClasses \cup {"core.SplitKey"}

IsCoreCertificate(x) == x.py = "object" /\ x.cls = "core.Certificate"

\* The one dispatch class of a recognized object.
DispatchClass(obj) == CHOOSE c \in ClassesOf(obj) : TRUE

\* C2: exhaustive dispatch.  A recognized object is an instance of exactly
\* one of the fourteen dispatch classes, its conversion is never refused as
\* an unsupported variant, and a returned result is a recognized object of
\* the other universe and of the same variant.
ExhaustiveDispatch ==
    (op = "convert" /\ Recognized(arg)) =>
        /\ Cardinality(ClassesOf(arg)) = 1
        /\ ret # UnsupportedVariant
        /\ Returned(ret) =>
            /\ Recognized(ret.value)
            /\ Cardinality(ClassesOf(ret.value)) = 1
            /\ Universe(DispatchClass(ret.value)) # Universe(DispatchClass(arg))
            /\ Variant(DispatchClass(ret.value)) = Variant(DispatchClass(arg))

\* A core secret data object has been converted to a Pie secret data object.
ExhaustiveDispatchWitness ==
    /\ op = "convert"
    /\ arg.py = "object"
    /\ arg.cls = "core.SecretData"
    /\ Returned(ret)
    /\ ret.value.cls = "pie.SecretData"

\* C3: an object that is an instance of none of the dispatch classes is
\* refused with the unsupported-variant error; nothing is returned.
UnrecognizedRejected ==
    (op = "convert" /\ ~Recognized(arg)) =>
        /\ Raised(ret)
        /\ ret.exc = "TypeError"
        /\ ret.msg = "object type unsupported and cannot be converted"

\* A string has been handed to the converter and refused.
UnrecognizedRejectedWitness ==
    /\ op = "convert"
    /\ arg = PyStr("invalid")
    /\ Raised(ret)
    /\ ret.exc = "TypeError"

\* C4: format-type guard.  The conversion of a core symmetric, public or
\* private key fails with the format mismatch exactly when the key is a
\* symmetric key, the Pie key is reconstructed, and the format type declared
\* in the key block differs from the format type of the reconstructed key;
\* a public or private key that is converted carries the declared format
\* type.
Reconstructible(key_block) ==
    /\ key_block.cryptographic_algorithm # None
    /\ key_block.cryptographic_length # None
    /\ Returned(_build_key_wrapping_data(key_block.key_wrapping_data))

ImpliedFormatType(key_block) ==
    PieSymmetricKey(key_block.cryptographic_algorithm.value,
                    key_block.cryptographic_length.value,
                    key_block.key_value.key_material.value,
                    None).key_format_type

FormatTypeGuard ==
    (op = "convert" /\ IsCoreKey(arg)) =>
        /\ ret = FormatMismatch <=>
            /\ arg.cls = "core.SymmetricKey"
            /\ Reconstructible(arg.key_block)
            /\ arg.key_block.key_format_type.value # ImpliedFormatType(arg.key_block)
        /\ (arg.cls # "core.SymmetricKey" /\ Reconstructible(arg.key_block)) =>
            /\ Returned(ret)
            /\ ret.value.key_format_type = arg.key_block.key_format_type.value

\* A core symmetric key declared as PKCS_1 has been refused.
FormatTypeGuardWitness ==
    /\ op = "convert"
    /\ IsCoreKey(arg)
    /\ arg.cls = "core.SymmetricKey"
    /\ arg.key_block.key_format_type.value = PKCS_1
    /\ ret = FormatMismatch

\* C5: wrapping data, core to Pie.  Absent wrapping data gives an absent
\* key_wrapping_data; present wrapping data gives a mapping with exactly the
\* six entries, in which an absent key-information sub-block is the empty
\* mapping and a present one is exactly {unique_identifier,
\* cryptographic_parameters}.
WrappingEntries ==
    {"py", "wrapping_method", "encryption_key_information",
     "mac_signature_key_information", "mac_signature", "iv_counter_nonce",
     "encoding_option"}

KeyInformationExpanded(info, m) ==
    IF info = None
    THEN m = EmptyDict
    ELSE /\ DOMAIN m = {"py", "unique_identifier", "cryptographic_parameters"}
         /\ m.py = "dict"
         /\ m.unique_identifier = info.unique_identifier
         /\ CryptographicParameters(m.cryptographic_parameters)
                = info.cryptographic_parameters

WrappingDataAbsenceVsEmptiness ==
    (op = "convert" /\ HasKeyBlock(arg) /\ Returned(ret)) =>
        LET w == arg.key_block.key_wrapping_data
            m == ret.value.key_wrapping_data
        IN  IF w = None
            THEN m = None /\ m # EmptyDict
            ELSE /\ DOMAIN m = WrappingEntries
                 /\ m.py = "dict"
                 /\ KeyInformationExpanded(w.encryption_key_information,
                                           m.encryption_key_information)
                 /\ KeyInformationExpanded(w.mac_signature_key_information,
                                           m.mac_signature_key_information)

\* A core key whose wrapping data has neither sub-block has been converted:
\* both sub-blocks are the empty mapping.
WrappingDataAbsenceVsEmptinessWitness ==
    /\ op = "convert"
    /\ IsCoreKey(arg)
    /\ Returned(ret)
    /\ arg.key_block.key_wrapping_data # None
    /\ arg.key_block.key_wrapping_data.encryption_key_information = None
    /\ arg.key_block.key_wrapping_data.mac_signature_key_information = None
    /\ ret.value.key_wrapping_data.encryption_key_information = EmptyDict
    /\ ret.value.key_wrapping_data.mac_signature_key_information = EmptyDict

\* C6: certificate type guard.  The conversion of a core certificate returns
\* a Pie certificate exactly when its certificate type is X_509, and fails
\* with the unsupported-certificate-type error for every other type.
CertificateTypeGuard ==
    (op = "convert" /\ IsCoreCertificate(arg)) =>
        /\ Returned(ret) <=> arg.certificate_type.value = X_509
        /\ arg.certificate_type.value # X_509 => ret = UnsupportedCertificateType

\* A core PGP certificate has been refused.
CertificateTypeGuardWitness ==
    /\ op = "convert"
    /\ IsCoreCertificate(arg)
    /\ arg.certificate_type.value = PGP
    /\ ret = UnsupportedCertificateType

\* The fields an object must carry for its conversion to be defined: a
\* certificate is an X.509 certificate, a key block has its algorithm, its
\* length and the parameters of its key-information sub-blocks, and a core
\* symmetric key declares the format type a Pie symmetric key has.
WellFormed(x) ==
    /\ Recognized(x)
    /\ IsInstance(x, "pie.Certificate") => x.certificate_type = X_509
    /\ IsCoreCertificate(x) => x.certificate_type.value = X_509
    /\ HasKeyBlock(x) => Reconstructible(x.key_block)
    /\ (IsCoreKey(x) /\ x.cls = "core.SymmetricKey") =>
           x.key_block.key_format_type.value = ImpliedFormatType(x.key_block)

\* The semantic fields of an object: everything but the compression type of
\* a key block and, for core secret data, everything of the key block but
\* its key material.
Semantic(x) ==
    IF HasKeyBlock(x)
    THEN [x EXCEPT !.key_block.key_compression_type = None]
    ELSE IF x.py = "object" /\ x.cls = "core.SecretData"
    THEN [x EXCEPT !.key_block =
              KeyBlock(KeyFormatType(OPAQUE), None, x.key_block.key_value,
                       None, None, None)]
    ELSE x

\* C1: round-trip identity.  For a well-formed object x of either universe,
\* convert(x) and convert(convert(x)) return, and convert(convert(x)) equals
\* x in every semantic field (the key wrapping data and, for a certificate,
\* the usage masks and the names among them).
RoundTripIdentity ==
    (op = "convert" /\ WellFormed(IF orig = NoOrigin THEN arg ELSE orig)) =>
        /\ Returned(ret)
        /\ orig # NoOrigin => Semantic(ret.value) = Semantic(orig)

\* C7: every failure of convert is one of the three conversion errors
\* (unsupported variant, unsupported certificate type, format mismatch); a
\* call returns an object or raises one of them.
SingleErrorKind ==
    op = "convert" =>
        \/ Returned(ret)
        \/ ret \in {UnsupportedVariant, UnsupportedCertificateType, FormatMismatch}

-----------------------------------------------------------------------------
(* Properties of the Certificate entity. *)

\* C8: certificate defaults.  A constructed concrete certificate has a list
\* of usage masks (the empty list when none are given, the given ones in
\* their order otherwise) and a one-element list of names (the placeholder
\* "Certificate" when no name is given, the given name otherwise); so has
\* the certificate a core certificate is converted to.
CertificateDefaults ==
    /\ (op = "construct" /\ Returned(ret)) =>
        /\ ret.value.cryptographic_usage_masks.py = "list"
        /\ ret.value.cryptographic_usage_masks =
               (IF arg.masks = Unspecified THEN PyList(<<>>) ELSE arg.masks)
        /\ ret.value.names.py = "list"
        /\ Len(ret.value.names.list) = 1
        /\ ret.value.names.list[1] =
               (IF arg.name = Unspecified THEN PyStr("Certificate") ELSE arg.name)
    /\ (op = "convert" /\ IsCoreCertificate(arg) /\ Returned(ret)) =>
        /\ ret.value.cryptographic_usage_masks = PyList(<<>>)
        /\ ret.value.names = PyList(<<PyStr("Certificate")>>)

\* A certificate has been constructed with neither masks nor name.
CertificateDefaultsWitness ==
    /\ op = "construct"
    /\ arg.masks = Unspecified
    /\ arg.name = Unspecified
    /\ Returned(ret)
    /\ ret.value.cryptographic_usage_masks = PyList(<<>>)
    /\ ret.value.names = PyList(<<PyStr("Certificate")>>)

\* C9: certificate construction validation.  The construction of a concrete
\* certificate fails with the validation error exactly when the certificate
\* type is no certificate-type value, or the value is no byte string, or
\* masks are given and are not a list of usage-mask values, or a name is
\* given and is no string; otherwise it returns the certificate.
InvalidArguments(call) ==
    \/ call.certificate_type \notin CertificateTypes
    \/ call.value.py # "bytes"
    \/ /\ call.masks # Unspecified
       /\ \/ call.masks.py # "list"
          \/ \E i \in DOMAIN call.masks.list :
                 call.masks.list[i] \notin CryptographicUsageMasks
    \/ /\ call.name # Unspecified
       /\ call.name.py # "str"

CertificateConstructionValidation ==
    (op = "construct" /\ arg.cls \in ConcreteCertificateClasses) =>
        IF InvalidArguments(arg)
        THEN Raised(ret) /\ ret.exc = "TypeError"
        ELSE /\ Returned(ret)
             /\ ret.value.certificate_type = arg.certificate_type
             /\ ret.value.value = arg.value

\* A list holding an invalid mask has been refused.
CertificateConstructionValidationWitness ==
    /\ op = "construct"
    /\ arg.cls = "DummyCertificate"
    /\ arg.certificate_type = X_509
    /\ arg.value.py = "bytes"
    /\ arg.masks = PyList(<<ENCRYPT, PyStr("invalid")>>)
    /\ arg.name = Unspecified
    /\ Raised(ret)

\* C10: the Certificate entity is abstract.  Its direct instantiation fails
\* with the construction error whatever the arguments, and every concrete
\* certificate that is constructed or converted to reports the certificate
\* object type.
CertificateIsAbstract ==
    /\ (op = "construct" /\ arg.cls = "pie.Certificate") =>
           Raised(ret) /\ ret.exc = "TypeError"
    /\ (op \in {"construct", "convert"} /\ Returned(ret)
            /\ IsInstance(ret.value, "pie.Certificate")) =>
           ret.value.object_type = CERTIFICATE

\* The abstract class has been called with valid arguments and has failed.
CertificateIsAbstractWitness ==
    /\ op = "construct"
    /\ arg.cls = "pie.Certificate"
    /\ ~InvalidArguments(arg)
    /\ Raised(ret)

-----------------------------------------------------------------------------
(* Properties of the secret data, split key and wrapping data builders. *)

IsA(x, c) == x.py = "object" /\ x.cls = c

\* C11: secret data.  A Pie secret data object is converted to a core one
\* with the same secret data type and key material, in a key block whose
\* format type is OPAQUE and whose algorithm, length and wrapping data are
\* absent; a core secret data object is converted to a Pie one whose type
\* and value are the secret data type and the key material of the key block.
SecretDataConversion ==
    /\ (op = "convert" /\ IsA(arg, "pie.SecretData")) =>
        /\ Returned(ret)
        /\ IsA(ret.value, "core.SecretData")
        /\ ret.value.secret_data_type.value = arg.data_type
        /\ ret.value.key_block.key_value.key_material.value = arg.value
        /\ ret.value.key_block.key_format_type.value = OPAQUE
        /\ ret.value.key_block.cryptographic_algorithm = None
        /\ ret.value.key_block.cryptographic_length = None
        /\ ret.value.key_block.key_wrapping_data = None
    /\ (op = "convert" /\ IsA(arg, "core.SecretData")) =>
        /\ Returned(ret)
        /\ IsA(ret.value, "pie.SecretData")
        /\ ret.value.data_type = arg.secret_data_type.value
        /\ ret.value.value = arg.key_block.key_value.key_material.value

\* A Pie secret data object has been converted into an opaque key block.
SecretDataConversionWitness ==
    /\ op = "convert"
    /\ IsA(arg, "pie.SecretData")
    /\ orig = NoOrigin
    /\ Returned(ret)
    /\ ret.value.key_block.key_format_type.value = OPAQUE

\* The five sharing parameters of a split key, of either universe.
SharingParameters(x) ==
    <<x.split_key_parts, x.key_part_identifier, x.split_key_threshold,
      x.split_key_method, x.prime_field_size>>

\* C13: split key.  In both directions the five sharing parameters, the
\* algorithm, the length, the key material, the format type and the
\* wrapping data of a split key are carried through, and the sharing
\* parameters are not validated against each other: a split key is
\* converted whatever its parts, identifier and threshold are.
SplitKeyPassThrough ==
    /\ (op = "convert" /\ IsA(arg, "pie.SplitKey")) =>
        /\ Returned(ret)
        /\ IsA(ret.value, "core.SplitKey")
        /\ SharingParameters(ret.value) = SharingParameters(arg)
        /\ ret.value.key_block.cryptographic_algorithm.value
               = arg.cryptographic_algorithm
        /\ ret.value.key_block.cryptographic_length.value
               = arg.cryptographic_length
        /\ ret.value.key_block.key_value.key_material.value = arg.value
        /\ ret.value.key_block.key_format_type.value = arg.key_format_type
        /\ IF arg.key_wrapping_data \in {None, EmptyDict}
           THEN ret.value.key_block.key_wrapping_data = None
           ELSE _build_key_wrapping_data(ret.value.key_block.key_wrapping_data)
                    = Return(arg.key_wrapping_data)
    /\ (op = "convert" /\ IsA(arg, "core.SplitKey")
            /\ Reconstructible(arg.key_block)) =>
        /\ Returned(ret)
        /\ IsA(ret.value, "pie.SplitKey")
        /\ SharingParameters(ret.value) = SharingParameters(arg)
        /\ ret.value.cryptographic_algorithm
               = arg.key_block.cryptographic_algorithm.value
        /\ ret.value.cryptographic_length
               = arg.key_block.cryptographic_length.value
        /\ ret.value.value = arg.key_block.key_value.key_material.value
        /\ ret.value.key_format_type = arg.key_block.key_format_type.value
        /\ IF arg.key_block.key_wrapping_data = None
           THEN ret.value.key_wrapping_data = None
           ELSE KeyWrappingData(ret.value.key_wrapping_data)
                    = arg.key_block.key_wrapping_data

\* A core split key whose identifier and threshold exceed its number of
\* parts has been converted.
SplitKeyPassThroughWitness ==
    /\ op = "convert"
    /\ IsA(arg, "core.SplitKey")
    /\ arg.key_part_identifier.int > arg.split_key_parts.int
    /\ arg.split_key_threshold.int > arg.split_key_parts.int
    /\ Returned(ret)
    /\ ret.value.key_part_identifier = arg.key_part_identifier

\* C14: wrapping data, Pie to core.  The key block built from a Pie
\* symmetric, public, private or split key carries a wrapping-data object
\* exactly when the key_wrapping_data of the Pie object is a non-empty
\* mapping; absent and empty key_wrapping_data both give absent wrapping
\* data.
WrappingDataPresence ==
    (op = "convert" /\ arg.py = "object"
        /\ arg.cls \in PieKeyClasses \cup {"pie.SplitKey"}) =>
        /\ Returned(ret)
        /\ ret.value.key_block.key_wrapping_data # None
               <=> arg.key_wrapping_data \notin {None, EmptyDict}
        /\ ret.value.key_block.key_wrapping_data # None
               => IsA(ret.value.key_block.key_wrapping_data, "KeyWrappingData")

\* A Pie key with the empty mapping has been converted: the key block has no
\* wrapping data.
WrappingDataPresenceWitness ==
    /\ op = "convert"
    /\ arg.py = "object"
    /\ arg.cls \in PieKeyClasses
    /\ arg.key_wrapping_data = EmptyDict
    /\ Returned(ret)
    /\ ret.value.key_block.key_wrapping_data = None

-----------------------------------------------------------------------------
(* Several callers of one factory.  A call of convert takes three steps of *)
(* its caller, and the steps of different callers interleave freely: the   *)
(* caller passes a shared object, convert tests its class and takes a      *)
(* branch, and the builder of that branch reads the object and builds the  *)
(* outcome.                                                                *)

\* The branch convert takes: the first class of its isinstance tests the
\* object is an instance of, "none" for the else branch.
dispatch(obj) ==
    IF \E i \in DOMAIN DispatchOrder : IsInstance(obj, DispatchOrder[i])
    THEN DispatchOrder[CHOOSE i \in DOMAIN DispatchOrder :
             /\ IsInstance(obj, DispatchOrder[i])
             /\ \A j \in 1..(i - 1) : ~IsInstance(obj, DispatchOrder[j])]
    ELSE "none"

\* The builder call of each branch of convert.
build(r, obj) ==
    CASE r = "pie.SymmetricKey" -> _build_core_key(obj, "core.SymmetricKey")
      [] r = "core.SymmetricKey" -> _build_pie_key(obj, "pie.SymmetricKey")
      [] r = "pie.PublicKey" -> _build_core_key(obj, "core.PublicKey")
      [] r = "core.PublicKey" -> _build_pie_key(obj, "pie.PublicKey")
      [] r = "pie.PrivateKey" -> _build_core_key(obj, "core.PrivateKey")
      [] r = "core.PrivateKey" -> _build_pie_key(obj, "pie.PrivateKey")
      [] r = "pie.Certificate" -> _build_core_certificate(obj)
      [] r = "core.Certificate" -> _build_pie_certificate(obj)
      [] r = "pie.SecretData" -> _build_core_secret_data(obj)
      [] r = "core.SecretData" -> _build_pie_secret_data(obj)
      [] r = "pie.OpaqueObject" -> _build_core_opaque_object(obj)
      [] r = "core.OpaqueObject" -> _build_pie_opaque_object(obj)
      [] r = "pie.SplitKey" -> _build_core_split_key(obj)
      [] r = "core.SplitKey" -> _build_pie_split_key(obj)
      [] OTHER -> UnsupportedVariant

\* A slip of the factory: it keeps the object of the call in an attribute.
AttributesAfterKeepObject(attributes, obj) ==
    [py |-> "object", cls |-> "ObjectFactory", last |-> obj]

\* The attributes of the factory after a call on obj: neither convert nor a
\* builder assigns to self.
AttributesAfter(attributes, obj) == attributes

\* The object passed after the call: the builders read its fields and
\* assign to none.
ObjectAfter(obj) == obj

InitConcurrent ==
    /\ op = "init"
    /\ arg = None
    /\ ret = NoResult
    /\ orig = NoOrigin
    /\ NoCallers

\* factory.convert(heap[a]) is called by caller t.
Enter(t) ==
    /\ pc[t] = "idle"
    /\ \E a \in DOMAIN heap : input' = [input EXCEPT ![t] = a]
    /\ pc' = [pc EXCEPT ![t] = "dispatch"]
    /\ UNCHANGED <<self, heap, route, output>>

\* The isinstance tests of convert.
Dispatch(t) ==
    /\ pc[t] = "dispatch"
    /\ route' = [route EXCEPT ![t] = dispatch(heap[input[t]])]
    /\ pc' = [pc EXCEPT ![t] = "build"]
    /\ UNCHANGED <<self, heap, input, output>>

\* The builder of the branch taken, and the return to the caller.
Build(t) ==
    /\ pc[t] = "build"
    /\ output' = [output EXCEPT ![t] = build(route[t], heap[input[t]])]
    /\ self' = AttributesAfter(self, heap[input[t]])
    /\ heap' = [heap EXCEPT ![input[t]] = ObjectAfter(heap[input[t]])]
    /\ pc' = [pc EXCEPT ![t] = "done"]
    /\ UNCHANGED <<input, route>>

\* The caller is done with the outcome.
Forget(t) ==
    /\ pc[t] = "done"
    /\ pc' = [pc EXCEPT ![t] = "idle"]
    /\ input' = [input EXCEPT ![t] = 0]
    /\ route' = [route EXCEPT ![t] = "none"]
    /\ output' = [output EXCEPT ![t] = NoResult]
    /\ UNCHANGED <<self, heap>>

NextConcurrent ==
    \E t \in Threads :
        /\ (Enter(t) \/ Dispatch(t) \/ Build(t) \/ Forget(t))
        /\ UNCHANGED <<op, arg, ret, orig>>

SpecConcurrent == InitConcurrent /\ [][NextConcurrent]_vars

\* C12: concurrent use.  Under every interleaving of the calls of several
\* callers, on the same object or on different ones, the factory has kept
\* nothing, no shared object has been modified, and every finished call has
\* the outcome convert gives for its object when run alone.
ConcurrentUseIsSafe ==
    /\ self = InitialAttributes
    /\ heap = SharedObjects
    /\ \A t \in Threads :
           pc[t] = "done" => output[t] = convert(SharedObjects[input[t]])

\* A call has finished while another call on the same object is under way.
ConcurrentUseIsSafeWitness ==
    \E t, u \in Threads :
        /\ t # u
        /\ pc[t] = "done"
        /\ pc[u] = "build"
        /\ input[t] = input[u]
        /\ Returned(output[t])


====
